---- MODULE Spec2Model ----
(***************************************************************************)
(* A model of downloader.py: the batch file fetcher that, per manifest     *)
(* entry and per file, verifies a local copy, fetches it when it is absent *)
(* or stale, verifies it again and discards it on a second mismatch, with  *)
(* the progress reporter, the single-instance lock and the exit status of  *)
(* the top-level driver.                                                   *)
(*                                                                         *)
(* A file's content is <<d, n>>: the first n bytes of the byte stream d.   *)
(* Two contents are the same bytes iff they are the same pair; the empty   *)
(* content is <<0, 0>>. A hash digest is an injective function of the      *)
(* algorithm and of the bytes fed to the engine.                           *)
(***************************************************************************)
EXTENDS Integers, Sequences, FiniteSets, TLC

VARIABLES
    disk,           \* path of file f -> its content, or Absent
    dirs,           \* the destination directories that exist
    lockHolder,     \* the process holding the lock on /tmp/download.lock, or 0
    proc,           \* per process: the locals of main, Entry.download, Progress
    disk0,          \* history: the disk as it was before any process started
    vcall           \* the last direct call of File.validate: inputs and result

vars == <<disk, dirs, lockHolder, proc, disk0, vcall>>

-----------------------------------------------------------------------------
(* Bounds of the model *)

\* the most files a manifest lists
MaxFiles == 2
\* the number of distinct byte streams a server or a disk may hold
NumData == 2
\* stream d is d * LenUnit bytes long
LenUnit == 400
\* the most calls of File.validate on one unchanged file
MaxCalls == 3

\* buf = up.read(512), buf = fp.read(512)
ChunkSize == 512

Procs == {1, 2}
Files == 1 .. MaxFiles
DataIds == 1 .. NumData

-----------------------------------------------------------------------------
(* Contents, buffers and digests *)

Absent == <<0, -1>>
Empty == <<0, 0>>
DataLen(d) == d * LenUnit
Whole(d) == <<d, DataLen(d)>>
NBytes(c) == c[2]
Prefix(c, n) == IF n <= 0 THEN Empty ELSE IF n >= NBytes(c) THEN c ELSE <<c[1], n>>
Min(a, b) == IF a < b THEN a ELSE b

\* what a server can serve, and what a disk can hold before the first run
RemoteBodies == {Whole(d) : d \in DataIds}
Truncations == {Prefix(Whole(d), k * ChunkSize) : d \in DataIds, k \in 0 .. 1}
DiskContents == RemoteBodies \cup {Absent}
AllContents == RemoteBodies \cup Truncations

\* fp.read(512) at offset nread: the bytes [lo, hi) of the stream, as <<d, lo, hi>>
Read(content, nread) ==
    LET hi == Min(nread + ChunkSize, NBytes(content))
    IN  IF nread >= NBytes(content) THEN <<0, nread, nread>> ELSE <<content[1], nread, hi>>
BufLen(buf) == buf[3] - buf[2]

\* hashlib: an engine holds the bytes fed so far; update appends a buffer
NewEngine == Empty
HashUpdate(engine, buf) ==
    IF BufLen(buf) = 0 THEN engine ELSE <<buf[1], engine[2] + BufLen(buf)>>
\* hexdigest(): lowercase hex, one value per algorithm and per byte string
HexDigest(algo, engine) == <<algo, engine[1], engine[2], "lower">>

SupportedAlgos == {"md5", "sha256"}
AlgoNames == SupportedAlgos \cup {"bogus"}
DigestCases == {"lower", "upper"}

\* the checksum maps a manifest can give a file: algo -> recorded digest
ChecksumMaps(domains, contents, cases) ==
    UNION {
        {[a \in S |-> <<a, g[a][1][1], g[a][1][2], g[a][2]>>] :
            g \in [S -> contents \X cases]}
        : S \in domains}

-----------------------------------------------------------------------------
(* Standard output: one record per print call *)

\* kind: what was printed; file: the file it names (0: none); val: the number in it
Item(kind, file, val) == [kind |-> kind, file |-> file, val |-> val]

-----------------------------------------------------------------------------
(* Progress *)

\* int(a / b): true division, truncated towards zero
TruncDiv(a, b) ==
    LET abs(x) == IF x < 0 THEN -x ELSE x
        q == abs(a) \div abs(b)
    IN  IF (a < 0) = (b < 0) THEN q ELSE -q

\* Progress.__init__: self.last = -1
NewProgressLast == -1

\* A progress session while one operation runs: last is Progress.last, ticks
\* what update has printed in this operation, pcts the successive values of
\* update's local prog (history).
Session(last) == [last |-> last, ticks |-> <<>>, pcts |-> <<>>]

\* Progress.start(prefix): prints the header when not a tty and not quiet
ProgressStart(prefix, env) ==
    IF ~env.tty /\ ~env.quiet THEN <<Item(prefix, 0, 0)>> ELSE <<>>

\* what Progress.update prints for prog when stdout is not a tty
Tick(prog) ==
    IF prog % 10 = 0 THEN <<Item("pct", 0, prog)>>
    ELSE IF prog % 2 = 0 THEN <<Item("dot", 0, prog)>>
    ELSE <<>>

\* mutant: update does not look at the global quiet
ProgressUpdate_NoQuietGuard(st, current, total, env) ==
    IF current = 0 \/ total = 0 THEN st
    ELSE LET prog == TruncDiv(100 * current, total)
             seen == [st EXCEPT !.pcts = Append(@, prog)]
         IN  IF env.tty
             THEN [seen EXCEPT !.ticks = Append(@, Item("line", 0, prog))]
             ELSE IF prog = st.last THEN seen
             ELSE [seen EXCEPT !.ticks = @ \o Tick(prog), !.last = prog]

\* Progress.update(current, total)
ProgressUpdate(st, current, total, env) ==
    IF current = 0 \/ total = 0 \/ env.quiet THEN st
    ELSE LET prog == TruncDiv(100 * current, total)
             seen == [st EXCEPT !.pcts = Append(@, prog)]
         IN  IF env.tty
             THEN [seen EXCEPT !.ticks = Append(@, Item("line", 0, prog))]
             ELSE IF prog = st.last THEN seen
             ELSE [seen EXCEPT !.ticks = @ \o Tick(prog), !.last = prog]

\* Progress.end(): print()
ProgressEnd == <<Item("nl", 0, 0)>>

-----------------------------------------------------------------------------
(* File *)

\* File.exists: whether the path exists; self.size = st_size when it does
FileExists(content) == content # Absent
\* mutant: the size is taken before the path is known to exist
SizeAfterExists_Unconditional(size, content) == NBytes(content)
SizeAfterExists(size, content) == IF FileExists(content) THEN NBytes(content) ELSE size

\* File.validate, the read loop: every engine and the progress sink get each
\* buffer, until read returns no bytes
RECURSIVE ValidateLoop(_, _, _, _, _, _)
ValidateLoop(content, size, engines, nread, st, env) ==
    LET buf == Read(content, nread)
        n == nread + BufLen(buf)
    IN  IF BufLen(buf) = 0
        THEN [engines |-> engines, st |-> st]
        ELSE ValidateLoop(content, size,
                          [a \in DOMAIN engines |-> HashUpdate(engines[a], buf)],
                          n, ProgressUpdate(st, n, size, env), env)

\* mutant: success = (digest == recorded), so the last algorithm decides
RECURSIVE CompareLoop_LastWins(_, _, _, _)
CompareLoop_LastWins(engines, checksums, todo, success) ==
    IF todo = {} THEN success
    ELSE LET algo == CHOOSE a \in todo : TRUE
         IN  CompareLoop_LastWins(engines, checksums, todo \ {algo},
                                  HexDigest(algo, engines[algo]) = checksums[algo])

\* File.validate, the comparison loop: success starts True and a mismatching
\* algorithm sets it False
RECURSIVE CompareLoop(_, _, _, _)
CompareLoop(engines, checksums, todo, success) ==
    IF todo = {} THEN success
    ELSE LET algo == CHOOSE a \in todo : TRUE
         IN  CompareLoop(engines, checksums, todo \ {algo},
                         IF HexDigest(algo, engines[algo]) # checksums[algo]
                         THEN FALSE ELSE success)

\* mutant: an algorithm hashlib does not know is left out of the verification
Validate_SkipsUnknown(checksums, content, size, st, env) ==
    LET known == {a \in DOMAIN checksums : a \in SupportedAlgos}
        r == ValidateLoop(content, size, [a \in known |-> NewEngine], 0, st, env)
    IN  [raised |-> FALSE,
         status |-> CompareLoop(r.engines, checksums, known, TRUE),
         st |-> r.st]

\* mutant: a file with no configured checksum does not verify
Validate_RequiresChecksum(checksums, content, size, st, env) ==
    IF \E algo \in DOMAIN checksums : algo \notin SupportedAlgos
    THEN [raised |-> TRUE, status |-> FALSE, st |-> st]
    ELSE LET r == ValidateLoop(content, size,
                               [a \in DOMAIN checksums |-> NewEngine], 0, st, env)
         IN  [raised |-> FALSE,
              status |-> CompareLoop(r.engines, checksums, DOMAIN checksums,
                                     DOMAIN checksums # {}),
              st |-> r.st]

\* mutant: validate takes the progress sink's last tick as the proof that the
\* file was read to its end
Validate_NeedsLastTick(checksums, content, size, st, env) ==
    IF \E algo \in DOMAIN checksums : algo \notin SupportedAlgos
    THEN [raised |-> TRUE, status |-> FALSE, st |-> st]
    ELSE LET r == ValidateLoop(content, size,
                               [a \in DOMAIN checksums |-> NewEngine], 0, st, env)
         IN  [raised |-> FALSE,
              status |-> /\ CompareLoop(r.engines, checksums, DOMAIN checksums, TRUE)
                         /\ (r.st.pcts # <<>> => r.st.ticks # <<>>),
              st |-> r.st]

\* File.validate(progress) on a file that can be opened: raised when
\* hashlib.new refuses an algorithm name (before the file is read), else the
\* status and the progress session after the reads
Validate(checksums, content, size, st, env) ==
    IF \E algo \in DOMAIN checksums : algo \notin SupportedAlgos
    THEN [raised |-> TRUE, status |-> FALSE, st |-> st]
    ELSE LET r == ValidateLoop(content, size,
                               [a \in DOMAIN checksums |-> NewEngine], 0, st, env)
         IN  [raised |-> FALSE,
              status |-> CompareLoop(r.engines, checksums, DOMAIN checksums, TRUE),
              st |-> r.st]

\* int(up.getheader('Content-Length', -1))
NoContentLength == -1
DeclaredSizes(body) == {NBytes(body), NoContentLength}

\* File.download, the read loop cut after `chunks` buffers (all of them when
\* the transfer is not interrupted): the bytes written and the session
RECURSIVE DownloadLoop(_, _, _, _, _, _)
DownloadLoop(body, size, nread, chunks, st, env) ==
    LET buf == Read(body, nread)
        n == nread + BufLen(buf)
    IN  IF BufLen(buf) = 0 \/ chunks = 0
        THEN [written |-> Prefix(body, nread), st |-> st]
        ELSE DownloadLoop(body, size, n, chunks - 1,
                          ProgressUpdate(st, n, size, env), env)

NChunks(content) == (NBytes(content) + ChunkSize - 1) \div ChunkSize

-----------------------------------------------------------------------------
(* The manifest and the command line *)

\* File.destdir of file f: files 1 and 2 share a directory, 3 and 4 the next
DestDir(f) == (f + 1) \div 2
Dirs == {DestDir(f) : f \in Files}

\* the entry of file f when a new <entry> starts after each file of breaks
EntryIndex(f, breaks) == 1 + Cardinality({b \in breaks : b < f})

\* parse_xml_node on the children of <entries>: n files, in manifest order,
\* grouped into consecutive entries
EntriesOf(n, breaks) ==
    [e \in 1 .. (IF n = 0 THEN 0 ELSE 1 + Cardinality(breaks)) |->
        LET fs == {f \in 1 .. n : EntryIndex(f, breaks) = e}
            first == CHOOSE f \in fs : \A g \in fs : f <= g
        IN  [i \in 1 .. Cardinality(fs) |-> first + i - 1]]

Manifests(maps) ==
    UNION {
        {[entries |-> EntriesOf(n, breaks), checksums |-> c] :
            breaks \in SUBSET (1 .. n - 1), c \in [1 .. n -> maps]}
        : n \in 0 .. MaxFiles}

\* the checksum maps of the manifests a run is given: every recorded digest
\* is the lowercase digest of stream 1
RunChecksums ==
    ChecksumMaps({{}, {"md5", "sha256"}, {"md5", "bogus"}},
                 {Whole(1)}, {"lower"})

\* sys.argv[1:] as getopt sees it: bad when an option is illegal, else which
\* of -q, -v, -u are given
Argvs == [bad : BOOLEAN, q : BOOLEAN, v : BOOLEAN, u : BOOLEAN]

-----------------------------------------------------------------------------
(* The top-level driver *)

\* if __name__ == '__main__': the exit status for each way main ends
ExitStatus(ending) ==
    CASE ending = "return None" -> 0
      [] ending = "return 0" -> 0
      [] ending = "return 2" -> 2
      [] ending = "KeyboardInterrupt" -> 1
      [] OTHER -> 99

\* history: an operation File performed, with its result
Op(name, file, res) == [op |-> name, file |-> file, res |-> res]

NoOp == [kind |-> "none", file |-> 0, total |-> 0,
         ticks |-> <<>>, fresh |-> <<>>, pcts |-> <<>>]

\* a process before main runs; exitcode -1: still running. u: whether -u
\* was given (history).
\* sizew (history): per file, the methods that assigned File.size, in order.
\* calls (history): the calls made on the Progress object and the entries into
\* and returns from File.validate and File.download, in order.
\* cause (history): why the process ended. op (history): the last verify or
\* download operation, the ticks it printed and those a new Progress prints.
NewProc(on) ==
    [pc |-> IF on THEN "start" ELSE "off",
     quiet |-> FALSE, tty |-> FALSE, u |-> FALSE,
     entries |-> <<>>, checksums |-> <<>>, size |-> <<>>, sizew |-> <<>>,
     ei |-> 0, fi |-> 0, last |-> NewProgressLast,
     out |-> <<>>, ops |-> <<>>, op |-> NoOp, calls |-> <<>>,
     exitcode |-> -1, cause |-> "none"]

Running(pr) == pr.pc \notin {"off", "done"}

\* the process ends: sys.exit(exitcode)
Exited(pr, ending, cause) ==
    [pr EXCEPT !.pc = "done", !.exitcode = ExitStatus(ending), !.cause = cause]

\* mutant: Entry.download catches the exceptions of a file and goes on
Propagate_Caught(pr, exc) ==
    IF exc = "Exception" /\ pr.fi > 0
    THEN (IF pr.fi < Len(pr.entries[pr.ei])
          THEN [pr EXCEPT !.pc = "file", !.fi = @ + 1]
          ELSE [pr EXCEPT !.pc = "entry", !.ei = @ + 1, !.fi = 0])
    ELSE [pr EXCEPT !.pc = "done", !.exitcode = ExitStatus(exc),
                    !.cause = IF exc = "KeyboardInterrupt" THEN "interrupt" ELSE "fault"]

\* an exception raised inside Entry.download or File: no handler below the
\* top level, so main ends with it
Propagate(pr, exc) ==
    Exited(pr, exc, IF exc = "KeyboardInterrupt" THEN "interrupt" ELSE "fault")

\* the for loops of main and Entry.download: on to the next file, or entry
NextFile(pr) ==
    IF pr.fi < Len(pr.entries[pr.ei])
    THEN [pr EXCEPT !.pc = "file", !.fi = @ + 1]
    ELSE [pr EXCEPT !.pc = "entry", !.ei = @ + 1, !.fi = 0]

CurrentFile(pr) == pr.entries[pr.ei][pr.fi]
Env(pr) == [quiet |-> pr.quiet, tty |-> pr.tty]

\* the lock of a process that ends is released with it
Released(p) == IF lockHolder = p THEN 0 ELSE lockHolder

-----------------------------------------------------------------------------
(* main *)

\* mutant: the lock is never found held
LockBusy_Never(holder, p) == FALSE

\* fcntl.lockf(fp, LOCK_EX | LOCK_NB) raises IOError: another process holds
\* the lock
LockBusy(holder, p) == holder \notin {0, p}

\* main, lines 206-242: the options, the lock (only with -u, non-blocking)
\* and the manifests. Neither the global verbose nor rootdir is read again.
MainStartWith(p, argvs, ttys, manifests) ==
    LET pr == proc[p]
    IN  /\ pr.pc = "start"
        /\ \E argv \in argvs, tty \in ttys, m \in manifests, parseError \in BOOLEAN :
            LET busy == argv.u /\ LockBusy(lockHolder, p)
                runs == ~argv.bad /\ ~busy /\ ~(argv.q /\ argv.v) /\ ~parseError
            IN  /\ proc' = [proc EXCEPT ![p] =
                        IF argv.bad THEN Exited(pr, "return 2", "usage")
                        ELSE IF busy
                        THEN Exited([pr EXCEPT !.u = TRUE, !.out =
                                        Append(@, Item("already running...", 0, 0))],
                                    "return 0", "locked")
                        ELSE IF argv.q /\ argv.v THEN Exited(pr, "return 2", "usage")
                        ELSE IF parseError THEN Propagate(pr, "Exception")
                        ELSE [pr EXCEPT !.pc = "entry", !.quiet = argv.q, !.tty = tty,
                                        !.u = argv.u,
                                        !.entries = m.entries,
                                        !.checksums = m.checksums,
                                        !.size = [f \in DOMAIN m.checksums |-> 0],
                                        !.sizew = [f \in DOMAIN m.checksums |-> <<>>],
                                        !.ei = 1]]
                /\ lockHolder' = IF runs /\ argv.u THEN p ELSE lockHolder
        /\ UNCHANGED <<disk, dirs, disk0, vcall>>

MainStart(p) == MainStartWith(p, Argvs, BOOLEAN, Manifests(RunChecksums))

\* main, lines 246-247, after the last entry: fp.close() gives the lock up,
\* then os.unlink('/tmp/downloader.lock') raises unless that file, which the
\* program never creates, exists
MainFinish(p) ==
    LET pr == proc[p]
    IN  /\ pr.pc = "entry"
        /\ pr.ei > Len(pr.entries)
        /\ lockHolder' = Released(p)
        /\ \E downloaderLock \in BOOLEAN :
            proc' = [proc EXCEPT ![p] =
                IF downloaderLock
                THEN Exited(pr, "return None", "completed")
                ELSE Exited(pr, "Exception", "cleanup")]
        /\ UNCHANGED <<disk, dirs, disk0, vcall>>

\* KeyboardInterrupt while main runs
Interrupt(p) ==
    /\ Running(proc[p])
    /\ proc' = [proc EXCEPT ![p] = Propagate(proc[p], "KeyboardInterrupt")]
    /\ lockHolder' = Released(p)
    /\ UNCHANGED <<disk, dirs, disk0, vcall>>

-----------------------------------------------------------------------------
(* Entry.download *)

\* lines 52-53: progress = Progress(), the entry's name
EntryBegin(p) ==
    LET pr == proc[p]
    IN  /\ pr.pc = "entry"
        /\ pr.ei <= Len(pr.entries)
        /\ proc' = [proc EXCEPT ![p] =
                LET named == [pr EXCEPT !.last = NewProgressLast,
                                        !.out = Append(@, Item("entry", 0, pr.ei))]
                IN  IF Len(pr.entries[pr.ei]) = 0
                    THEN [named EXCEPT !.ei = @ + 1]
                    ELSE [named EXCEPT !.pc = "file", !.fi = 1]]
        /\ UNCHANGED <<disk, dirs, lockHolder, disk0, vcall>>

\* mutant: the directory is not created
EnsureDir_Never(ds, dir) == ds

\* lines 56-57: if not os.path.exists(file.destdir): os.makedirs(file.destdir)
EnsureDir(ds, dir) == IF dir \notin ds THEN ds \cup {dir} ELSE ds

\* lines 55-60: the file's name, os.makedirs when destdir is absent (which
\* can fail), file.exists()
FileBegin(p) ==
    LET pr == proc[p]
        file == CurrentFile(pr)
        dir == DestDir(file)
        named == [pr EXCEPT !.out = Append(@, Item("file", file, 0))]
    IN  /\ pr.pc = "file"
        /\ \E oserror \in BOOLEAN :
            IF dir \notin dirs /\ oserror
            THEN /\ proc' = [proc EXCEPT ![p] =
                        Propagate([named EXCEPT !.ops =
                                      Append(@, Op("makedirs", file, "raise"))],
                                  "Exception")]
                 /\ lockHolder' = Released(p)
                 /\ UNCHANGED dirs
            ELSE /\ dirs' = EnsureDir(dirs, dir)
                 /\ proc' = [proc EXCEPT ![p] =
                        [named EXCEPT
                            !.size[file] = SizeAfterExists(@, disk[file]),
                            !.sizew[file] = IF FileExists(disk[file])
                                            THEN Append(@, "exists") ELSE @,
                            !.ops = @ \o (IF dir \in dirs THEN <<>>
                                          ELSE <<Op("makedirs", file, "ok")>>)
                                     \o <<Op("exists", file,
                                             IF FileExists(disk[file])
                                             THEN "true" ELSE "false")>>,
                            !.pc = IF FileExists(disk[file])
                                   THEN "validate1" ELSE "fetch"]]
                 /\ UNCHANGED lockHolder
        /\ UNCHANGED <<disk, disk0, vcall>>

\* mutant: the continue of line 66 is missing
AfterFirstValidate_AlwaysRetry(status) == "retry"

\* mutant: a mismatch of the local copy is reported as success
AfterFirstValidate_NeverRetry(status) == "continue"

\* mutant: the test of line 64 is inverted
AfterFirstValidate_Inverted(status) == IF status THEN "retry" ELSE "continue"

\* lines 64-69: after the first verification, skip the file or fetch it again
AfterFirstValidate(status) == IF status THEN "continue" ELSE "retry"

\* mutant: a file that fails after the fetch is kept
AfterSecondValidate_AlwaysKeep(status) == "keep"

\* mutant: the test of line 77 is inverted
AfterSecondValidate_Inverted(status) == IF status THEN "discard" ELSE "keep"

\* lines 77-79: after the verification that follows the fetch
AfterSecondValidate(status) == IF status THEN "keep" ELSE "discard"

\* mutant: progress.end() is not called
ProgressCalls_NoEnd(op, updates, returned) ==
    <<"start", op>> \o [i \in 1 .. updates |-> "update"]
        \o (IF returned THEN <<"return">> ELSE <<>>)

\* lines 61-63, 71-73, 74-76: progress.start(), then op (file.validate or
\* file.download), which calls progress.update() after each buffer, then,
\* when op returned, progress.end()
ProgressCalls(op, updates, returned) ==
    <<"start", op>> \o [i \in 1 .. updates |-> "update"]
        \o (IF returned THEN <<"return", "end">> ELSE <<>>)

\* history: the operation just run, with what a new Progress would print
OpRecord(kind, file, total, st, fresh) ==
    [kind |-> kind, file |-> file, total |-> total,
     ticks |-> st.ticks, fresh |-> fresh.ticks, pcts |-> st.pcts]

\* progress.start, file.validate(progress), progress.end on the local file:
\* the process once the three calls returned, and validate's result
Checksumed(pr, file, content) ==
    LET r == Validate(pr.checksums[file], content, pr.size[file],
                      Session(pr.last), Env(pr))
        fresh == Validate(pr.checksums[file], content, pr.size[file],
                          Session(NewProgressLast), Env(pr))
    IN  [raised |-> r.raised,
         status |-> r.status,
         pr |-> [pr EXCEPT
                    !.last = r.st.last,
                    !.out = @ \o ProgressStart("checksuming", Env(pr))
                              \o (IF r.raised THEN <<>>
                                  ELSE r.st.ticks \o ProgressEnd),
                    !.op = OpRecord("checksuming", file, pr.size[file],
                                    r.st, fresh.st),
                    !.calls = @ \o ProgressCalls("validate",
                                        IF r.raised THEN 0 ELSE NChunks(content),
                                        ~r.raised),
                    !.ops = Append(@, Op("validate", file,
                                         IF r.raised THEN "raise"
                                         ELSE IF r.status THEN "true"
                                         ELSE "false"))]]

\* open() or read() fails in File.validate
ChecksumFailed(pr, file) ==
    Propagate([pr EXCEPT
                  !.out = @ \o ProgressStart("checksuming", Env(pr)),
                  !.calls = @ \o ProgressCalls("validate", 0, FALSE),
                  !.ops = Append(@, Op("validate", file, "raise"))],
              "Exception")

\* lines 61-69: the verification of the local copy
FirstValidate(p) ==
    LET pr == proc[p]
        file == CurrentFile(pr)
    IN  /\ pr.pc = "validate1"
        /\ \E ioerror \in BOOLEAN :
            IF disk[file] = Absent \/ ioerror
            THEN /\ proc' = [proc EXCEPT ![p] = ChecksumFailed(pr, file)]
                 /\ lockHolder' = Released(p)
                 /\ UNCHANGED disk
            ELSE LET c == Checksumed(pr, file, disk[file])
                 IN  IF c.raised
                     THEN /\ proc' = [proc EXCEPT ![p] = Propagate(c.pr, "Exception")]
                          /\ lockHolder' = Released(p)
                          /\ UNCHANGED disk
                     ELSE IF AfterFirstValidate(c.status) = "continue"
                     THEN /\ proc' = [proc EXCEPT ![p] =
                                NextFile([c.pr EXCEPT !.out =
                                    Append(@, Item("already downloaded", file, 0))])]
                          /\ UNCHANGED <<disk, lockHolder>>
                     ELSE /\ proc' = [proc EXCEPT ![p] =
                                [c.pr EXCEPT
                                    !.out = Append(@,
                                        Item("checksum mismatch. retrying...", file, 0)),
                                    !.ops = Append(@, Op("unlink", file, "ok")),
                                    !.pc = "fetch"]]
                          /\ disk' = [disk EXCEPT ![file] = Absent]
                          /\ UNCHANGED lockHolder
        /\ UNCHANGED <<dirs, disk0, vcall>>

\* lines 71-73: progress.start, file.download(progress), progress.end.
\* cut = -1: urlopen raises; cut < NChunks(body): the transfer ends with exc
\* after cut buffers were written; else the whole body is written.
Fetch(p) ==
    LET pr == proc[p]
        file == CurrentFile(pr)
        started == [pr EXCEPT !.out = @ \o ProgressStart("downloading", Env(pr))]
    IN  /\ pr.pc = "fetch"
        /\ \E body \in RemoteBodies, exc \in {"Exception", "KeyboardInterrupt"} :
           \E size \in DeclaredSizes(body), cut \in -1 .. NChunks(body) :
            LET d == DownloadLoop(body, size, 0, cut, Session(pr.last), Env(pr))
                fresh == DownloadLoop(body, size, 0, cut,
                                      Session(NewProgressLast), Env(pr))
                read == [started EXCEPT
                            !.size[file] = size,
                            !.sizew[file] = Append(@, "download"),
                            !.last = d.st.last,
                            !.out = @ \o d.st.ticks,
                            !.op = OpRecord("downloading", file, size, d.st, fresh.st)]
            IN  IF cut = -1
                THEN /\ proc' = [proc EXCEPT ![p] =
                            Propagate([started EXCEPT
                                          !.calls = @ \o ProgressCalls("download", 0, FALSE),
                                          !.ops =
                                          Append(@, Op("download", file, "raise"))],
                                      "Exception")]
                     /\ lockHolder' = Released(p)
                     /\ UNCHANGED disk
                ELSE IF cut < NChunks(body)
                THEN /\ proc' = [proc EXCEPT ![p] =
                            Propagate([read EXCEPT
                                          !.calls = @ \o ProgressCalls("download", cut, FALSE),
                                          !.ops =
                                          Append(@, Op("download", file,
                                              IF exc = "KeyboardInterrupt"
                                              THEN "interrupted" ELSE "raise"))],
                                      exc)]
                     /\ lockHolder' = Released(p)
                     /\ disk' = [disk EXCEPT ![file] = d.written]
                ELSE /\ proc' = [proc EXCEPT ![p] =
                            [read EXCEPT
                                !.out = @ \o ProgressEnd,
                                !.calls = @ \o ProgressCalls("download",
                                                             NChunks(body), TRUE),
                                !.ops = Append(@, Op("download", file, "ok")),
                                !.pc = "validate2"]]
                     /\ disk' = [disk EXCEPT ![file] = d.written]
                     /\ UNCHANGED lockHolder
        /\ UNCHANGED <<dirs, disk0, vcall>>

\* lines 74-79: the verification that follows the fetch
SecondValidate(p) ==
    LET pr == proc[p]
        file == CurrentFile(pr)
    IN  /\ pr.pc = "validate2"
        /\ \E ioerror \in BOOLEAN :
            IF disk[file] = Absent \/ ioerror
            THEN /\ proc' = [proc EXCEPT ![p] = ChecksumFailed(pr, file)]
                 /\ lockHolder' = Released(p)
                 /\ UNCHANGED disk
            ELSE LET c == Checksumed(pr, file, disk[file])
                 IN  IF c.raised
                     THEN /\ proc' = [proc EXCEPT ![p] = Propagate(c.pr, "Exception")]
                          /\ lockHolder' = Released(p)
                          /\ UNCHANGED disk
                     ELSE IF AfterSecondValidate(c.status) = "keep"
                     THEN /\ proc' = [proc EXCEPT ![p] = NextFile(c.pr)]
                          /\ UNCHANGED <<disk, lockHolder>>
                     ELSE /\ proc' = [proc EXCEPT ![p] =
                                NextFile([c.pr EXCEPT
                                    !.out = Append(@,
                                        Item("checksum mismatch", file, 0)),
                                    !.ops = Append(@, Op("unlink", file, "ok"))])]
                          /\ disk' = [disk EXCEPT ![file] = Absent]
                          /\ UNCHANGED lockHolder
        /\ UNCHANGED <<dirs, disk0, vcall>>

-----------------------------------------------------------------------------
(* One run of the program *)

NoCall == [called |-> FALSE, checksums |-> <<>>, content |-> Empty,
           raised |-> FALSE, status |-> FALSE]

\* before the run: some directories and files exist (a file only in an
\* existing directory), nobody holds the lock
InitWith(started) ==
    /\ dirs \in SUBSET Dirs
    /\ disk \in [Files -> DiskContents]
    /\ \A f \in Files : disk[f] # Absent => DestDir(f) \in dirs
    /\ disk0 = disk
    /\ lockHolder = 0
    /\ proc = [p \in Procs |-> NewProc(p \in started)]
    /\ vcall = NoCall

Init == InitWith({1})

Next ==
    \E p \in Procs :
        \/ MainStart(p)
        \/ EntryBegin(p)
        \/ FileBegin(p)
        \/ FirstValidate(p)
        \/ Fetch(p)
        \/ SecondValidate(p)
        \/ MainFinish(p)
        \/ Interrupt(p)

Spec == Init /\ [][Next]_vars

-----------------------------------------------------------------------------
(* Two instances of the program on the same files *)

\* both run quietly, not on a terminal, on a manifest of at most one file; each with or without -u
ArgvsTwo == {a \in Argvs : ~a.bad /\ ~a.v /\ a.q}
ManifestsTwo ==
    {m \in Manifests(ChecksumMaps({{"md5"}}, {Whole(1)}, {"lower"})) :
        DOMAIN m.checksums \subseteq {1}}

MainStartTwo(p) == MainStartWith(p, ArgvsTwo, {FALSE}, ManifestsTwo)

InitTwo ==
    /\ InitWith(Procs)
    /\ \A f \in Files \ {1} : disk[f] = Absent

NextTwo ==
    \E p \in Procs :
        \/ MainStartTwo(p)
        \/ EntryBegin(p)
        \/ FileBegin(p)
        \/ FirstValidate(p)
        \/ Fetch(p)
        \/ SecondValidate(p)
        \/ MainFinish(p)
        \/ Interrupt(p)

SpecTwo == InitTwo /\ [][NextTwo]_vars

-----------------------------------------------------------------------------
(* Two runs of the program, one after the other *)

\* both runs are quiet, not on a terminal and without -u, on a manifest of at
\* most one file that has no checksum, or the md5 digest of stream 1
ArgvsRuns == {a \in Argvs : ~a.bad /\ ~a.v /\ a.q /\ ~a.u}
ManifestsRuns ==
    {m \in Manifests(ChecksumMaps({{}, {"md5"}}, {Whole(1)}, {"lower"})) :
        DOMAIN m.checksums \subseteq {1}}

\* the second run starts when the first has ended
MainStartRuns(p) ==
    /\ \A q \in Procs : q < p => proc[q].pc = "done"
    /\ MainStartWith(p, ArgvsRuns, {FALSE}, ManifestsRuns)

NextRuns ==
    \E p \in Procs :
        \/ MainStartRuns(p)
        \/ EntryBegin(p)
        \/ FileBegin(p)
        \/ FirstValidate(p)
        \/ Fetch(p)
        \/ SecondValidate(p)
        \/ MainFinish(p)
        \/ Interrupt(p)

SpecRuns == InitTwo /\ [][NextRuns]_vars

-----------------------------------------------------------------------------
(* File.validate called directly *)

\* any checksum map over any algorithm names, recorded digests of any content
\* in either case, on any file content
ApplyValidate ==
    /\ ~vcall.called
    /\ \E checksums \in ChecksumMaps(SUBSET AlgoNames, AllContents, DigestCases),
          content \in AllContents :
        LET r == Validate(checksums, content, NBytes(content),
                          Session(NewProgressLast), [quiet |-> FALSE, tty |-> FALSE])
        IN  vcall' = [called |-> TRUE, checksums |-> checksums, content |-> content,
                      raised |-> r.raised, status |-> r.status]
    /\ UNCHANGED <<disk, dirs, lockHolder, proc, disk0>>

InitValidate ==
    /\ InitWith({})
    /\ dirs = {}

NextValidate == ApplyValidate

SpecValidate == InitValidate /\ [][NextValidate]_vars

-----------------------------------------------------------------------------
(* File.validate called again and again on one file *)

\* quiet and sys.stdout.isatty()
Envs == [quiet : BOOLEAN, tty : BOOLEAN]

\* the File record of file f
FileRecord(f, size, checksums) ==
    [name |-> f, destdir |-> DestDir(f), url |-> f, size |-> size,
     checksums |-> checksums]

RepeatChecksums ==
    ChecksumMaps({{}, {"md5"}, {"md5", "sha256"}, {"md5", "bogus"}},
                 AllContents, DigestCases)

\* file 1 is on disk, whole or truncated
InitRepeat ==
    /\ dirs = Dirs
    /\ disk \in [Files -> AllContents \cup {Absent}]
    /\ disk[1] # Absent
    /\ \A f \in Files \ {1} : disk[f] = Absent
    /\ disk0 = disk
    /\ lockHolder = 0
    /\ proc = [p \in Procs |-> NewProc(FALSE)]
    /\ vcall = NoCall

\* file.validate(progress) on file 1: the file is opened 'rb' and no
\* attribute of self is assigned; the Progress keeps its last percentage
ValidateCall(file, file0, env, last, results) ==
    LET r == Validate(file.checksums, disk[file.name], file.size, Session(last), env)
    IN  /\ vcall' = [called |-> TRUE, file |-> file, file0 |-> file0, env |-> env,
                     last |-> r.st.last,
                     results |-> Append(results,
                                        IF r.raised THEN "raise"
                                        ELSE IF r.status THEN "true" ELSE "false")]
        /\ UNCHANGED <<disk, dirs, lockHolder, proc, disk0>>

\* the first call, with a new Progress, on a File record whose size is 0, the
\* size on disk or the size a response declared
ValidateFirst ==
    /\ ~vcall.called
    /\ \E checksums \in RepeatChecksums, env \in Envs,
          size \in {0, NBytes(disk[1]), NoContentLength} :
        LET file == FileRecord(1, size, checksums)
        IN  ValidateCall(file, file, env, NewProgressLast, <<>>)

\* a further call on the same File record
ValidateAgain ==
    /\ vcall.called
    /\ Len(vcall.results) < MaxCalls
    /\ ValidateCall(vcall.file, vcall.file0, vcall.env, vcall.last, vcall.results)

NextRepeat == ValidateFirst \/ ValidateAgain

SpecRepeat == InitRepeat /\ [][NextRepeat]_vars

-----------------------------------------------------------------------------
(* Progress called directly *)

\* Progress.last when the call is made: new, or left by earlier updates
ProgressLasts == {NewProgressLast, 0, 50, 100}
Prefixes == {"checksuming", "downloading"}
\* the arguments of update: bytes so far and the total, known or not
Currents == {0, 1, LenUnit \div 2, LenUnit}
Totals == {NoContentLength, 0, LenUnit}

\* one call of start, update or end: what it printed and Progress.last after
ProgressCall(fn, env, prefix, last, current, total, out, after) ==
    [called |-> TRUE, fn |-> fn, env |-> env, prefix |-> prefix, last |-> last,
     current |-> current, total |-> total, out |-> out, after |-> after]

\* progress.start(prefix): self.last is not assigned
ApplyStart ==
    /\ ~vcall.called
    /\ \E env \in Envs, last \in ProgressLasts, prefix \in Prefixes :
        vcall' = ProgressCall("start", env, prefix, last, 0, 0,
                              ProgressStart(prefix, env), Session(last))
    /\ UNCHANGED <<disk, dirs, lockHolder, proc, disk0>>

\* progress.update(current, total)
ApplyUpdate ==
    /\ ~vcall.called
    /\ \E env \in Envs, last \in ProgressLasts, current \in Currents, total \in Totals :
        LET st == ProgressUpdate(Session(last), current, total, env)
        IN  vcall' = ProgressCall("update", env, "", last, current, total, st.ticks, st)
    /\ UNCHANGED <<disk, dirs, lockHolder, proc, disk0>>

\* progress.end()
ApplyEnd ==
    /\ ~vcall.called
    /\ \E env \in Envs, last \in ProgressLasts :
        vcall' = ProgressCall("end", env, "", last, 0, 0, ProgressEnd, Session(last))
    /\ UNCHANGED <<disk, dirs, lockHolder, proc, disk0>>

NextProgress == ApplyStart \/ ApplyUpdate \/ ApplyEnd

SpecProgress == InitValidate /\ [][NextProgress]_vars

-----------------------------------------------------------------------------
(* Vocabulary of the properties *)

\* the content's digest equals the recorded one for every configured algorithm
Matches(content, checksums) ==
    \A a \in DOMAIN checksums :
        a \in SupportedAlgos /\ checksums[a] = HexDigest(a, content)

\* the operations performed on file f, in order (directory creation aside)
FileOps(pr, f) == SelectSeq(pr.ops, LAMBDA o : o.file = f /\ o.op # "makedirs")
OpNames(ops) == [i \in DOMAIN ops |-> ops[i].op]
Count(seq, Test(_)) == Cardinality({i \in DOMAIN seq : Test(seq[i])})
IsPrefix(a, b) == Len(a) <= Len(b) /\ \A i \in DOMAIN a : a[i] = b[i]

\* the file the process is at: files are numbered in manifest order
Pos(pr) ==
    IF pr.fi > 0 THEN pr.entries[pr.ei][pr.fi]
    ELSE IF pr.ei > Len(pr.entries) THEN Len(pr.checksums) + 1
    ELSE IF Len(pr.entries[pr.ei]) = 0 THEN Len(pr.checksums) + 1
    ELSE pr.entries[pr.ei][1]
\* Entry.download is done with file f and went on
Passed(pr, f) == f < Pos(pr)
\* main left the loop over the entries normally
LoopEnded(pr) == pr.pc = "done" /\ pr.cause \in {"completed", "cleanup"}
Processing(pr) == pr.pc \in {"entry", "file", "validate1", "fetch", "validate2"}

FailedFirst(pr, f) ==
    LET o == FileOps(pr, f)
    IN  Len(o) >= 2 /\ o[1] = Op("exists", f, "true") /\ o[2] = Op("validate", f, "false")
FailedSecond(pr, f) ==
    LET o == FileOps(pr, f)
    IN  \E i \in 2 .. Len(o) :
            o[i - 1] = Op("download", f, "ok") /\ o[i] = Op("validate", f, "false")

-----------------------------------------------------------------------------
(* C1 *)

\* C1: a file that exists locally when it is processed and whose content
\* matches all its configured checksums is never fetched, never deleted and
\* never rewritten: the process performs no download and no unlink on it and
\* the disk holds the content it held before the run.
C1_ValidFileUntouched ==
    \A p \in Procs : \A f \in DOMAIN proc[p].checksums :
        (/\ Op("exists", f, "true") \in {proc[p].ops[i] : i \in DOMAIN proc[p].ops}
         /\ Matches(disk0[f], proc[p].checksums[f]))
        => /\ Count(proc[p].ops,
                    LAMBDA o : o.file = f /\ o.op \in {"download", "unlink"}) = 0
           /\ disk[f] = disk0[f]
           /\ proc[p].pc \notin {"fetch", "validate2"} \/ Pos(proc[p]) # f

\* a file with two configured checksums, both matching, was verified and
\* reported as already downloaded, and the loop went on to the end
C1_Witness ==
    \E p \in Procs : \E f \in DOMAIN proc[p].checksums :
        /\ DOMAIN proc[p].checksums[f] = {"md5", "sha256"}
        /\ Matches(disk0[f], proc[p].checksums[f])
        /\ FileOps(proc[p], f) = <<Op("exists", f, "true"), Op("validate", f, "true")>>
        /\ \E i \in DOMAIN proc[p].out :
                proc[p].out[i] = Item("already downloaded", f, 0)
        /\ LoopEnded(proc[p])

-----------------------------------------------------------------------------
(* C2 *)

RetryOrder == <<"exists", "validate", "unlink", "download", "validate", "unlink">>

\* C2: no file is fetched more than once in a run; and for a file that
\* exists locally and fails its first verification the operations are, in
\* this order, the deletion of the stale copy (the path is absent until the
\* fetch), one fetch, one further verification (and the deletion that follows
\* its failure): when Entry.download goes on to the next file, the fetch and
\* the second verification have happened exactly once.
C2_OneRetry ==
    \A p \in Procs : \A f \in DOMAIN proc[p].checksums :
        LET o == FileOps(proc[p], f)
        IN  /\ Count(o, LAMBDA x : x.op = "download") <= 1
            /\ FailedFirst(proc[p], f) =>
                /\ IsPrefix(OpNames(o), RetryOrder)
                /\ Len(o) >= 3 /\ o[3] = Op("unlink", f, "ok")
                /\ Len(o) = 3 => disk[f] = Absent
                /\ Passed(proc[p], f) =>
                    /\ Len(o) >= 5
                    /\ o[4] = Op("download", f, "ok")
                    /\ o[5].res \in {"true", "false"}
                    /\ Len(o) = 6 <=> o[5].res = "false"

\* a stale file was deleted, fetched once and failed again, and the run went
\* on to the end of the loop
C2_Witness ==
    \E p \in Procs : \E f \in DOMAIN proc[p].checksums :
        /\ FailedFirst(proc[p], f)
        /\ OpNames(FileOps(proc[p], f)) = RetryOrder
        /\ LoopEnded(proc[p])

-----------------------------------------------------------------------------
(* C3 *)

\* C3: when the verification that follows a fetch fails, "checksum mismatch"
\* is printed once for the file, the file is deleted and absent afterwards,
\* nothing is raised (Entry.download goes on to the next file), and a run
\* whose loop ends has processed every file of every entry.
C3_SecondFailureDiscards ==
    \A p \in Procs :
        /\ \A f \in DOMAIN proc[p].checksums :
            FailedSecond(proc[p], f) =>
                /\ Count(proc[p].out,
                         LAMBDA x : x = Item("checksum mismatch", f, 0)) = 1
                /\ disk[f] = Absent
                /\ FileOps(proc[p], f)[Len(FileOps(proc[p], f))] = Op("unlink", f, "ok")
                /\ Passed(proc[p], f)
        /\ LoopEnded(proc[p]) =>
                \A f \in DOMAIN proc[p].checksums : Len(FileOps(proc[p], f)) > 0

\* the first of two files failed after its fetch and was discarded, and the
\* second file was processed after it
C3_Witness ==
    \E p \in Procs :
        /\ Len(proc[p].checksums) = 2
        /\ FailedSecond(proc[p], 1)
        /\ disk[1] = Absent
        /\ Len(FileOps(proc[p], 2)) > 0
        /\ LoopEnded(proc[p])

-----------------------------------------------------------------------------
(* C4 *)

\* C4: File.validate raises exactly when an algorithm name is unsupported,
\* and otherwise returns true iff, for every algorithm of the checksum map,
\* the digest of the whole file equals the recorded digest; so one
\* mismatching algorithm makes it false and an empty map makes it true.
C4_ValidateAllAlgorithms ==
    vcall.called =>
        /\ vcall.raised <=> \E a \in DOMAIN vcall.checksums : a \notin SupportedAlgos
        /\ ~vcall.raised =>
            (vcall.status <=>
                \A a \in DOMAIN vcall.checksums :
                    vcall.checksums[a] = HexDigest(a, vcall.content))
        /\ vcall.checksums = <<>> => vcall.status

\* a file of two buffers whose md5 digest is the recorded one and whose
\* sha256 digest is not: validate returned false
C4_Witness ==
    /\ vcall.called
    /\ DOMAIN vcall.checksums = {"md5", "sha256"}
    /\ NBytes(vcall.content) > ChunkSize
    /\ vcall.checksums["md5"] = HexDigest("md5", vcall.content)
    /\ vcall.checksums["sha256"] # HexDigest("sha256", vcall.content)
    /\ ~vcall.raised
    /\ ~vcall.status

-----------------------------------------------------------------------------
(* C5 *)

\* C5, as claimed: a run whose loop over the entries ends (no fault but
\* checksum mismatches) exits with status 0; status 99 only after an
\* unhandled fault, 1 only after an interruption, 2 only after a malformed
\* invocation.
C5_ExitStatus ==
    \A p \in Procs :
        /\ (proc[p].pc = "done" /\ proc[p].cause \in {"completed", "cleanup"})
                => proc[p].exitcode = 0
        /\ proc[p].exitcode = 99 => proc[p].cause \in {"fault", "cleanup"}
        /\ proc[p].exitcode = 1 => proc[p].cause = "interrupt"
        /\ proc[p].exitcode = 2 => proc[p].cause = "usage"

-----------------------------------------------------------------------------
(* C6 *)

\* C6, as claimed: of any two instances, at most one is processing entries
\* at a time.
C6_AtMostOneProcessing ==
    \A p, q \in Procs :
        p # q => ~(Processing(proc[p]) /\ Processing(proc[q]))

\* C6, amended: an instance started with -u holds the lock for as long as it
\* processes entries, so two instances started with -u never process at the
\* same time; and an instance that found the lock held has printed only
\* "already running...", exited with status 0 and touched no file.
C6_AtMostOneWithU ==
    /\ \A p \in Procs : (Processing(proc[p]) /\ proc[p].u) => lockHolder = p
    /\ \A p, q \in Procs :
        (p # q /\ proc[p].u /\ proc[q].u)
            => ~(Processing(proc[p]) /\ Processing(proc[q]))
    /\ \A p \in Procs :
        proc[p].cause = "locked" =>
            /\ proc[p].pc = "done"
            /\ proc[p].exitcode = 0
            /\ proc[p].out = <<Item("already running...", 0, 0)>>
            /\ proc[p].ops = <<>>

\* one instance started with -u has fetched a file and is about to verify it,
\* while the other, also started with -u, has found the lock held and exited
C6_Witness ==
    \E p, q \in Procs :
        /\ p # q
        /\ proc[p].u /\ proc[p].pc = "validate2"
        /\ proc[q].u /\ proc[q].cause = "locked" /\ proc[q].exitcode = 0

-----------------------------------------------------------------------------
(* C7 *)

\* C7: an exception raised while a file is processed (directory creation,
\* network, file I/O, unsupported algorithm) ends the run: it is the last
\* operation of the process, no later file is named or touched, and the
\* exit status is 99.
C7_FaultAbortsRun ==
    \A p \in Procs :
        /\ \A i \in DOMAIN proc[p].ops :
            proc[p].ops[i].res = "raise" =>
                /\ i = Len(proc[p].ops)
                /\ proc[p].pc = "done"
                /\ proc[p].exitcode = 99
                /\ \A j \in DOMAIN proc[p].out :
                        proc[p].out[j].file <= proc[p].ops[i].file
                /\ \A j \in DOMAIN proc[p].ops :
                        proc[p].ops[j].file <= proc[p].ops[i].file
        /\ proc[p].cause = "fault" => (proc[p].pc = "done" /\ proc[p].exitcode = 99)

\* an unsupported algorithm ended the run at the first of two files
C7_Witness ==
    \E p \in Procs :
        /\ Len(proc[p].checksums) = 2
        /\ Len(proc[p].ops) > 0
        /\ proc[p].ops[Len(proc[p].ops)] = Op("validate", 1, "raise")
        /\ "bogus" \in DOMAIN proc[p].checksums[1]
        /\ proc[p].exitcode = 99

-----------------------------------------------------------------------------
(* C8, C9, C10 *)

NonDecreasing(seq) == \A i, j \in DOMAIN seq : i < j => seq[i] <= seq[j]
Increasing(seq) == \A i, j \in DOMAIN seq : i < j => seq[i] < seq[j]
TickValues(ticks) == [i \in DOMAIN ticks |-> ticks[i].val]

\* C8, as claimed: not on a terminal and not quiet, an operation whose
\* successive percentages do not decrease and lie in 0..100 prints each
\* percentage at most once, in increasing order, "NN%" for a multiple of 10
\* and a dot for another even one, and each multiple of 10 exactly once.
C8_TicksOncePerPercentage ==
    \A p \in Procs :
        LET op == proc[p].op
        IN  (/\ op.kind # "none" /\ ~proc[p].tty /\ ~proc[p].quiet
             /\ NonDecreasing(op.pcts)
             /\ \A i \in DOMAIN op.pcts : op.pcts[i] \in 0 .. 100)
            => /\ Increasing(TickValues(op.ticks))
               /\ \A i \in DOMAIN op.ticks :
                    op.ticks[i].kind = IF op.ticks[i].val % 10 = 0 THEN "pct" ELSE "dot"
               /\ \A i \in DOMAIN op.pcts :
                    op.pcts[i] % 2 = 0 =>
                        Count(op.ticks, LAMBDA t : t.val = op.pcts[i]) = 1

\* C9, as claimed: every verify or download operation prints what a new
\* progress session prints: the last percentage of an earlier operation
\* changes nothing.
C9_FreshSession ==
    \A p \in Procs : proc[p].op.ticks = proc[p].op.fresh

\* C10, as claimed: a download whose response declares no size computes no
\* percentage, and every percentage ever printed lies in 0..100.
C10_UnknownSizeNoPercentage ==
    \A p \in Procs :
        /\ (proc[p].op.kind = "downloading" /\ proc[p].op.total = NoContentLength)
                => proc[p].op.pcts = <<>>
        /\ \A i \in DOMAIN proc[p].out :
                proc[p].out[i].kind \in {"pct", "dot", "line"}
                    => proc[p].out[i].val \in 0 .. 100

-----------------------------------------------------------------------------
(* C11 *)

\* the entry that lists file f
EntryOfFile(pr, f) ==
    CHOOSE e \in DOMAIN pr.entries : \E i \in DOMAIN pr.entries[e] : pr.entries[e][i] = f
\* the lines of standard output that name an entry or a file
NameLines(out) == SelectSeq(out, LAMBDA x : x.kind \in {"entry", "file"} \/ x.file # 0)
StatusKinds == {"already downloaded", "checksum mismatch. retrying...", "checksum mismatch"}
\* how often a status string was printed for file f
Printed(pr, kind, f) == Count(pr.out, LAMBDA x : x = Item(kind, f, 0))
VerifiedFirst(pr, f) ==
    LET o == FileOps(pr, f)
    IN  Len(o) >= 2 /\ o[1] = Op("exists", f, "true") /\ o[2] = Op("validate", f, "true")

\* C11: entry names, file names and status strings come out in manifest
\* order (an entry's name, then for each of its files the file's name and then
\* its status strings); and per file "already downloaded" is printed exactly
\* when the file existed and its first verification succeeded, "checksum
\* mismatch. retrying..." exactly when it existed and its first verification
\* failed, and then before the fetch, "checksum mismatch" exactly when the
\* verification after the fetch failed; a fetch followed by a successful
\* verification prints no status string.
C11_StatusStrings ==
    \A p \in Procs :
        LET pr == proc[p]
            lines == NameLines(pr.out)
            entryLines == SelectSeq(lines, LAMBDA x : x.kind = "entry")
            fileLines == SelectSeq(lines, LAMBDA x : x.kind # "entry")
        IN  /\ \A i \in DOMAIN entryLines : entryLines[i] = Item("entry", 0, i)
            /\ \A i, j \in DOMAIN fileLines : i < j => fileLines[i].file <= fileLines[j].file
            /\ \A i \in DOMAIN lines :
                lines[i].kind # "entry" =>
                    \E j \in 1 .. i - 1 :
                        /\ lines[j] = Item("entry", 0, EntryOfFile(pr, lines[i].file))
                        /\ \A k \in j + 1 .. i - 1 : lines[k].kind # "entry"
            /\ \A f \in DOMAIN pr.checksums :
                LET mine == SelectSeq(fileLines, LAMBDA x : x.file = f)
                    o == FileOps(pr, f)
                IN  /\ Len(o) > 0 => (Len(mine) > 0 /\ mine[1] = Item("file", f, 0))
                    /\ Printed(pr, "file", f) <= 1
                    /\ Passed(pr, f) => Printed(pr, "file", f) = 1
                    /\ \A i \in 2 .. Len(mine) : mine[i].kind \in StatusKinds
                    /\ Printed(pr, "already downloaded", f)
                            = IF VerifiedFirst(pr, f) THEN 1 ELSE 0
                    /\ Printed(pr, "checksum mismatch. retrying...", f)
                            = IF FailedFirst(pr, f) THEN 1 ELSE 0
                    /\ Printed(pr, "checksum mismatch", f)
                            = IF FailedSecond(pr, f) THEN 1 ELSE 0
                    /\ (FailedFirst(pr, f) /\ FailedSecond(pr, f)) =>
                            SelectSeq(mine, LAMBDA x : x.kind # "file")
                                = <<Item("checksum mismatch. retrying...", f, 0),
                                    Item("checksum mismatch", f, 0)>>
                    /\ (Len(o) >= 2 /\ o[Len(o) - 1] = Op("download", f, "ok")
                                    /\ o[Len(o)] = Op("validate", f, "true")) =>
                            /\ Printed(pr, "already downloaded", f) = 0
                            /\ Printed(pr, "checksum mismatch", f) = 0
                            /\ ~FailedFirst(pr, f) => Len(mine) = 1

\* two entries of one file each: the first file was stale, fetched and failed
\* again, the second was already downloaded, and the loop ended
C11_Witness ==
    \E p \in Procs :
        /\ Len(proc[p].entries) = 2
        /\ NameLines(proc[p].out) =
                <<Item("entry", 0, 1), Item("file", 1, 0),
                  Item("checksum mismatch. retrying...", 1, 0),
                  Item("checksum mismatch", 1, 0),
                  Item("entry", 0, 2), Item("file", 2, 0),
                  Item("already downloaded", 2, 0)>>
        /\ LoopEnded(proc[p])

-----------------------------------------------------------------------------
(* C12 *)

\* C12: in quiet mode start and update print nothing and leave the last
\* percentage as it was, while end prints exactly one newline in every mode;
\* outside quiet mode start prints the header exactly when stdout is not a
\* terminal; and update with current 0 or total 0 prints nothing and changes
\* nothing, in every mode.
C12_QuietAndGuards ==
    vcall.called =>
        /\ (vcall.fn \in {"start", "update"} /\ vcall.env.quiet) =>
                (vcall.out = <<>> /\ vcall.after.last = vcall.last)
        /\ vcall.fn = "end" => vcall.out = <<Item("nl", 0, 0)>>
        /\ (vcall.fn = "start" /\ ~vcall.env.quiet) =>
                vcall.out = IF vcall.env.tty THEN <<>>
                            ELSE <<Item(vcall.prefix, 0, 0)>>
        /\ (vcall.fn = "update" /\ (vcall.current = 0 \/ vcall.total = 0)) =>
                (vcall.out = <<>> /\ vcall.after = Session(vcall.last))

\* update in quiet mode, not on a terminal, at 100% of a known total with a
\* new Progress: outside quiet mode this call prints "100%"
C12_Witness ==
    /\ vcall.called
    /\ vcall.fn = "update"
    /\ vcall.env = [quiet |-> TRUE, tty |-> FALSE]
    /\ vcall.last = NewProgressLast
    /\ vcall.current = LenUnit /\ vcall.total = LenUnit
    /\ vcall.out = <<>>
    /\ vcall.after.last = NewProgressLast

-----------------------------------------------------------------------------
(* C13 *)

\* C13, as claimed: File.size is 0 at construction and, once the run is over
\* the loop, has been assigned exactly twice for every file, by File.exists
\* and then by File.download.
C13_SizeWrittenTwice ==
    \A p \in Procs : \A f \in DOMAIN proc[p].sizew :
        /\ proc[p].sizew[f] = <<>> => proc[p].size[f] = 0
        /\ LoopEnded(proc[p]) => proc[p].sizew[f] = <<"exists", "download">>

\* what the step of process p did to the File records
SizeStep(p) ==
    \/ proc[p].sizew = <<>>
    \/ \A f \in DOMAIN proc[p].sizew :
        \/ /\ proc'[p].sizew[f] = proc[p].sizew[f]
           /\ proc'[p].size[f] = proc[p].size[f]
        \/ /\ proc[p].pc = "file"
           /\ CurrentFile(proc[p]) = f
           /\ disk[f] # Absent
           /\ proc'[p].sizew[f] = Append(proc[p].sizew[f], "exists")
           /\ proc'[p].size[f] = NBytes(disk[f])
        \/ /\ proc[p].pc = "fetch"
           /\ CurrentFile(proc[p]) = f
           /\ proc'[p].sizew[f] = Append(proc[p].sizew[f], "download")

\* C13, amended: File.size is 0 at construction and is assigned at most
\* twice: at most once by File.exists, when the path exists, and after that at
\* most once by File.download; no step of a verification, of the progress
\* reporter or of a deletion changes it, and a file that was not found and
\* not fetched keeps size 0.
C13_SizeWrittenAtMostTwice ==
    /\ [](\A p \in Procs : \A f \in DOMAIN proc[p].sizew :
            /\ proc[p].sizew[f] \in {<<>>, <<"exists">>, <<"download">>,
                                     <<"exists", "download">>}
            /\ proc[p].sizew[f] = <<>> => proc[p].size[f] = 0
            /\ ("exists" \in {proc[p].sizew[f][i] : i \in DOMAIN proc[p].sizew[f]})
                    <=> Op("exists", f, "true") \in {proc[p].ops[i] : i \in DOMAIN proc[p].ops}
            /\ ("download" \in {proc[p].sizew[f][i] : i \in DOMAIN proc[p].sizew[f]})
                    => Count(proc[p].ops, LAMBDA o : o.file = f /\ o.op = "download") = 1)
    /\ [][\A p \in Procs : SizeStep(p)]_vars

\* a stale file whose size was assigned by exists and then by download, and
\* that was verified again and deleted: the loop ended with two assignments
C13_Witness ==
    \E p \in Procs : \E f \in DOMAIN proc[p].sizew :
        /\ proc[p].sizew[f] = <<"exists", "download">>
        /\ OpNames(FileOps(proc[p], f)) = RetryOrder
        /\ LoopEnded(proc[p])

-----------------------------------------------------------------------------
(* C14 *)

\* C14: every call of File.validate on a file whose content and checksum
\* map are unchanged returns what the first call returned (or raises as it
\* did), whatever the progress reporter kept from the calls before; and the
\* calls change neither the file on disk nor the File record.
C14_ValidateIdempotent ==
    vcall.called =>
        /\ \A i \in DOMAIN vcall.results : vcall.results[i] = vcall.results[1]
        /\ disk = disk0
        /\ vcall.file = vcall.file0

\* three calls, not quiet and not on a terminal, on a file of one buffer that
\* matches its two checksums: the first call printed "100%", the later ones
\* found that percentage already recorded, and all returned true
C14_Witness ==
    /\ vcall.called
    /\ vcall.results = <<"true", "true", "true">>
    /\ DOMAIN vcall.file.checksums = {"md5", "sha256"}
    /\ vcall.env = [quiet |-> FALSE, tty |-> FALSE]
    /\ vcall.file.size = NBytes(disk[1])
    /\ vcall.last = 100

-----------------------------------------------------------------------------
(* C15 *)

\* the operations that need the file's directory
NeedsDir == {"exists", "validate", "download", "unlink"}

\* C15: the destination directory of a file exists whenever the file is
\* checked for existence, verified, fetched or deleted: a directory that is
\* absent is created before the existence check (and when its creation fails
\* there is no check), and a directory that exists is not touched and raises
\* nothing.
C15_DirectoryFirst ==
    /\ [](\A p \in Procs :
            LET pr == proc[p]
            IN  /\ \A i \in DOMAIN pr.ops :
                    /\ pr.ops[i].op \in NeedsDir => DestDir(pr.ops[i].file) \in dirs
                    /\ pr.ops[i] = Op("makedirs", pr.ops[i].file, "ok") =>
                            /\ i < Len(pr.ops)
                            /\ pr.ops[i + 1].op = "exists"
                            /\ pr.ops[i + 1].file = pr.ops[i].file
                    /\ pr.ops[i] = Op("makedirs", pr.ops[i].file, "raise") =>
                            FileOps(pr, pr.ops[i].file) = <<>>
                /\ pr.pc \in {"validate1", "fetch", "validate2"} =>
                        DestDir(CurrentFile(pr)) \in dirs)
    /\ [][/\ dirs \subseteq dirs'
          /\ \A p \in Procs :
                (/\ proc[p].pc = "file"
                 /\ proc'[p] # proc[p]
                 /\ DestDir(CurrentFile(proc[p])) \in dirs)
                => /\ dirs' = dirs
                   /\ proc'[p].cause # "fault"
                   /\ Len(proc'[p].ops) = Len(proc[p].ops) + 1
                        => proc'[p].ops[Len(proc'[p].ops)].op = "exists"]_vars

\* the directory of files 1 and 2 was absent: it was created for file 1, which
\* was then fetched, and file 2 was processed in it with no second creation
C15_Witness ==
    \E p \in Procs :
        /\ DestDir(1) \in dirs
        /\ disk0[1] = Absent /\ disk0[2] = Absent
        /\ Len(proc[p].ops) >= 4
        /\ proc[p].ops[1] = Op("makedirs", 1, "ok")
        /\ proc[p].ops[2] = Op("exists", 1, "false")
        /\ proc[p].ops[3] = Op("download", 1, "ok")
        /\ Op("exists", 2, "false") \in {proc[p].ops[i] : i \in DOMAIN proc[p].ops}
        /\ Op("makedirs", 2, "ok") \notin {proc[p].ops[i] : i \in DOMAIN proc[p].ops}

-----------------------------------------------------------------------------
(* C16 *)

\* the reporter as a state machine: idle; active once started; running while
\* the operation it reports on is under way; ran once that has returned
ProgressMachine(state, call) ==
    CASE state = "idle" /\ call = "start" -> "active"
      [] state = "active" /\ call \in {"validate", "download"} -> "running"
      [] state = "running" /\ call = "update" -> "running"
      [] state = "running" /\ call = "return" -> "ran"
      [] state = "ran" /\ call = "end" -> "idle"
      [] OTHER -> "error"

\* the state the calls lead to, from idle
RECURSIVE ProgressState(_)
ProgressState(calls) ==
    IF calls = <<>> THEN "idle"
    ELSE ProgressMachine(ProgressState(SubSeq(calls, 1, Len(calls) - 1)),
                         calls[Len(calls)])

\* C16: the calls Entry.download and File make on the reporter follow the
\* machine: start only when idle, update only while the operation runs
\* between its start and its end, end only after the operation returned and
\* once per start; and the reporter is idle between two operations, when
\* Entry.download has returned and when the loop over the entries is over.
\* Each verification and each fetch that returned is matched by one start and
\* one end.
C16_ProgressStateMachine ==
    \A p \in Procs :
        LET pr == proc[p]
        IN  /\ ProgressState(pr.calls) # "error"
            /\ (Processing(pr) \/ LoopEnded(pr)) => ProgressState(pr.calls) = "idle"
            /\ Count(pr.calls, LAMBDA c : c = "start")
                    = Count(pr.ops, LAMBDA o : o.op \in {"validate", "download"})
            /\ Count(pr.calls, LAMBDA c : c = "end")
                    = Count(pr.ops, LAMBDA o : o.op \in {"validate", "download"}
                                              /\ o.res \in {"ok", "true", "false"})

\* a stale file of two buffers was verified, fetched and verified again: three
\* operations, each between its start and its end, the fetch with two updates
C16_Witness ==
    \E p \in Procs :
        /\ proc[p].calls =
                <<"start", "validate", "update", "update", "return", "end",
                  "start", "download", "update", "update", "return", "end",
                  "start", "validate", "update", "update", "return", "end">>
        /\ LoopEnded(proc[p])

-----------------------------------------------------------------------------
(* C17 *)

\* the last operation performed on file f
LastOp(pr, f) == FileOps(pr, f)[Len(FileOps(pr, f))]

\* C17: once Entry.download is done with a file (so, when it returns, for
\* every file of the entry), the file is either on disk, its last operation
\* being a verification that succeeded, with content that matches all its
\* configured checksums, or absent, its last operation being the deletion
\* that follows the failed verification of the fetched copy.
C17_VerifiedOrAbsent ==
    \A p \in Procs : \A f \in DOMAIN proc[p].checksums :
        Passed(proc[p], f) =>
            IF disk[f] # Absent
            THEN /\ LastOp(proc[p], f) = Op("validate", f, "true")
                 /\ Matches(disk[f], proc[p].checksums[f])
            ELSE /\ LastOp(proc[p], f) = Op("unlink", f, "ok")
                 /\ FailedSecond(proc[p], f)

\* the loop ended with file 1 fetched, verified against two checksums and
\* kept, and file 2 fetched, failed and absent
C17_Witness ==
    \E p \in Procs :
        /\ LoopEnded(proc[p])
        /\ Len(proc[p].checksums) = 2
        /\ DOMAIN proc[p].checksums[1] = {"md5", "sha256"}
        /\ FileOps(proc[p], 1) = <<Op("exists", 1, "false"), Op("download", 1, "ok"),
                                   Op("validate", 1, "true")>>
        /\ disk[1] # Absent
        /\ FailedSecond(proc[p], 2)
        /\ disk[2] = Absent

-----------------------------------------------------------------------------
(* C18 *)

\* C18: for a file with no configured checksum that exists when a run
\* processes it, whatever its content, the run performs no fetch and no
\* delete: the verification leaves the disk as it is and never leads to the
\* fetch, and unless reading the file fails it succeeds and "already
\* downloaded" is printed. This holds in each run, so also in the run that
\* follows one that left a truncated file.
C18_EmptyMapKeepsAnyFile ==
    /\ [](\A p \in Procs : \A f \in DOMAIN proc[p].checksums :
            LET o == FileOps(proc[p], f)
            IN  (/\ proc[p].checksums[f] = <<>>
                 /\ Len(o) > 0 /\ o[1] = Op("exists", f, "true"))
                => /\ Count(o, LAMBDA x : x.op \in {"download", "unlink"}) = 0
                   /\ Len(o) <= 2
                   /\ Len(o) = 2 => o[2] \in {Op("validate", f, "true"),
                                              Op("validate", f, "raise")}
                   /\ Printed(proc[p], "already downloaded", f)
                        = IF Len(o) = 2 /\ o[2].res = "true" THEN 1 ELSE 0
                   /\ Printed(proc[p], "checksum mismatch. retrying...", f) = 0)
    /\ [][\A p \in Procs :
            (/\ proc[p].pc = "validate1"
             /\ proc[p].checksums[CurrentFile(proc[p])] = <<>>
             /\ proc'[p] # proc[p])
            => /\ disk' = disk
               /\ proc'[p].pc \in {"file", "entry", "done"}]_vars

\* the first run was given a checksum for file 1 and ended while fetching it,
\* leaving one buffer of a longer body; the second run, given no checksum,
\* reported the truncated file as already downloaded and kept it
C18_Witness ==
    \E p, q \in Procs :
        /\ q < p
        /\ Len(proc[q].ops) > 0
        /\ proc[q].ops[Len(proc[q].ops)] \in
                {Op("download", 1, "raise"), Op("download", 1, "interrupted")}
        /\ proc[p].checksums = <<<<>>>>
        /\ FileOps(proc[p], 1) = <<Op("exists", 1, "true"), Op("validate", 1, "true")>>
        /\ Printed(proc[p], "already downloaded", 1) = 1
        /\ LoopEnded(proc[p])
        /\ NBytes(disk[1]) = ChunkSize
        /\ disk[1] \notin RemoteBodies

-----------------------------------------------------------------------------
(* C19 *)

Unsupported(checksums) == \E a \in DOMAIN checksums : a \notin SupportedAlgos

\* C19: a file whose checksum map names an unsupported algorithm is accepted
\* by the manifest parser and processed like any other until File.validate
\* raises: every verification of it raises, so Entry.download never goes past
\* it. Absent locally, it is fetched first, completely, and the fetched file
\* is on disk when the run ends with status 99; present locally, the first
\* verification raises with no delete and no fetch, and the file is as it was.
C19_UnsupportedDetectedInValidate ==
    \A p \in Procs : \A f \in DOMAIN proc[p].checksums :
        LET pr == proc[p]
            o == FileOps(pr, f)
        IN  Unsupported(pr.checksums[f]) =>
                /\ ~Passed(pr, f)
                /\ \A i \in DOMAIN o : o[i].op = "validate" => o[i].res = "raise"
                /\ Count(o, LAMBDA x : x.op = "unlink") = 0
                /\ (Len(o) > 0 /\ o[1] = Op("exists", f, "false")) =>
                        /\ IsPrefix(OpNames(o), <<"exists", "download", "validate">>)
                        /\ (pr.pc = "validate2" /\ CurrentFile(pr) = f)
                                => disk[f] \in RemoteBodies
                        /\ Len(o) = 3 =>
                                /\ o[2] = Op("download", f, "ok")
                                /\ disk[f] \in RemoteBodies
                                /\ pr.pc = "done" /\ pr.exitcode = 99
                /\ (Len(o) > 0 /\ o[1] = Op("exists", f, "true")) =>
                        /\ IsPrefix(OpNames(o), <<"exists", "validate">>)
                        /\ disk[f] = disk0[f]
                        /\ Len(o) = 2 => (pr.pc = "done" /\ pr.exitcode = 99)

\* a file absent locally whose map names an unsupported algorithm was fetched
\* whole, then the verification raised: the run ended with status 99 and the
\* unverified file is on disk
C19_Witness ==
    \E p \in Procs : \E f \in DOMAIN proc[p].checksums :
        /\ Unsupported(proc[p].checksums[f])
        /\ disk0[f] = Absent
        /\ FileOps(proc[p], f) = <<Op("exists", f, "false"), Op("download", f, "ok"),
                                   Op("validate", f, "raise")>>
        /\ disk[f] \in RemoteBodies
        /\ proc[p].exitcode = 99

====
